---- MODULE Spec2Model ----
(***************************************************************************)
(* Model of pyspark/sql/worker/create_data_source.py: the worker that      *)
(* decodes one "create data source" request from the JVM, instantiates the *)
(* data source, answers with the pickled instance and its schema, and then *)
(* negotiates reuse of the process.                                        *)
(***************************************************************************)
EXTENDS Integers, Sequences, FiniteSets, TLC

\* ---- bounds ------------------------------------------------------------
MaxOptions == 2
MaxNameLen == 2

\* ---- protocol sentinels (pyspark.serializers.SpecialLengths) -----------
END_OF_DATA_SECTION == -1
END_OF_STREAM == -4

\* exit statuses: normal return, sys.exit(-1), uncaught exception
EXIT_OK == 0
EXIT_MINUS_ONE == 255
EXIT_UNCAUGHT == 1

\* ---- strings -----------------------------------------------------------
Chars == {"a", "A", "b"}

StringsUpTo(n) == UNION {[1..k -> Chars] : k \in 1..n}

LowerChar(c) == IF c = "A" THEN "a" ELSE c

\* str.lower()
Lower(s) == [i \in DOMAIN s |-> LowerChar(s[i])]

\* ---- the inputs the host and the plugin can supply ----------------------
\* what read_command can unpickle: an object that is no type, a type that is
\* no DataSource subclass, a DataSource subclass whose name() is a plain
\* (instance) method, a conforming DataSource subclass
ClsKinds == {"object", "type", "instance_name", "conforming"}

ClsNames == {<<"a">>, <<"A", "b">>}

ProviderNames == StringsUpTo(MaxNameLen)

OptionKeys == StringsUpTo(1)

OptionValues == {"1", "2"}

\* schema json strings the host may send
SchemaStrings == {"J1", "JInt", "bad"}

\* values of PYTHON_TRACEBACK_DUMP_INTERVAL_SECONDS
IntervalValues == {"unset", "0", "1", "x"}

\* trailing synchronization integers the host may send
TailValues == {END_OF_STREAM, END_OF_DATA_SECTION, 0}

NoSchema == [tag |-> "none", v |-> "none"]

\* what DataSource.schema() may return (or "raise")
SchemaReturns ==
    { [tag |-> "str", v |-> "x int"],
      [tag |-> "struct", v |-> "S2"],
      [tag |-> "other", v |-> "int"],
      NoSchema }

\* _parse_datatype_json_string
ParseJson(s) ==
    CASE s = "J1" -> [tag |-> "struct", v |-> "S1"]
      [] s = "J2" -> [tag |-> "struct", v |-> "S2"]
      [] s = "JInt" -> [tag |-> "atomic", v |-> "int"]
      [] OTHER -> [tag |-> "raise", v |-> "JSONDecodeError"]

\* StructType.json()
Json(sch) ==
    CASE sch.v = "S1" -> "J1"
      [] sch.v = "S2" -> "J2"
      [] OTHER -> "J?"

\* type(x).__name__ of the unpickled command
TypeName(kind) == IF kind = "object" THEN "int" ELSE "ABCMeta"

\* type(data_source_cls.name).__name__
NameAccessorType(kind) == IF kind = "conforming" THEN "method" ELSE "function"

NoCls == [kind |-> "none", name |-> <<>>]
NoInstance == [made |-> FALSE, schemaRet |-> NoSchema, raises |-> FALSE, picklable |-> FALSE, opts |-> <<>>]

\* the frames of the wire protocol
Frame(k, v) == [kind |-> k, val |-> v]
NoExc == [cls |-> "none", errorClass |-> "none", expected |-> "none", actual |-> <<>>]

Exc(c) == [cls |-> c, errorClass |-> "none", expected |-> "none", actual |-> <<>>]

TypeMismatch(c, e, a) == [cls |-> c, errorClass |-> "DATA_SOURCE_TYPE_MISMATCH", expected |-> e, actual |-> a]

VARIABLES
    pc,             \* position in main
    env,            \* the environment: fhDir, interval
    fh,             \* diagnostic log: pathSet, bound, open, enabled, exists
    dumpArmed,      \* faulthandler.dump_traceback_later is armed
    cls,            \* data_source_cls
    provider,       \* provider
    hasSchema,      \* the value read_bool returned
    userSchema,     \* user_specified_schema
    numOptions,     \* num_options (-1 before it is read)
    key,            \* key of the pair being read
    received,       \* the (key, value) pairs received so far
    options,        \* the CaseInsensitiveDict
    dataSource,     \* data_source
    schema,         \* schema
    isDdl,          \* is_ddl_string
    tail,           \* the trailing integer read
    exc,            \* the exception being handled
    pending,        \* a SystemExit travelling through the finally block
    reads,          \* frames read from infile, in order
    out,            \* frames written to outfile, in order
    calls,          \* plugin calls made, in order
    exitStatus      \* "running" or the exit status of the process

vars == <<pc, env, fh, dumpArmed, cls, provider, hasSchema, userSchema, numOptions,
          key, received, options, dataSource, schema, isDdl, tail, exc, pending,
          reads, out, calls, exitStatus>>

decodeVars == <<cls, provider, hasSchema, userSchema, numOptions, key, received, options>>
resolveVars == <<dataSource, schema, isDdl>>
diagVars == <<env, fh, dumpArmed>>

Init ==
    /\ pc = "start"
    /\ env \in [fhDir : BOOLEAN, interval : IntervalValues]
    /\ fh = [pathSet |-> FALSE, bound |-> FALSE, open |-> FALSE, enabled |-> FALSE, exists |-> FALSE]
    /\ dumpArmed = FALSE
    /\ cls = NoCls
    /\ provider = <<>>
    /\ hasSchema = FALSE
    /\ userSchema = NoSchema
    /\ numOptions = -1
    /\ key = <<>>
    /\ received = <<>>
    /\ options = <<>>
    /\ dataSource = NoInstance
    /\ schema = NoSchema
    /\ isDdl = FALSE
    /\ tail = 0
    /\ exc = NoExc
    /\ pending = "none"
    /\ reads = <<>>
    /\ out = <<>>
    /\ calls = <<>>
    /\ exitStatus = "running"

\* raise e inside the try block: control goes to the except clause
Raise(e) ==
    /\ pc' = "except"
    /\ exc' = e

\* lines 67-70: open the diagnostic log and enable faulthandler
OpenFaulthandlerLog ==
    /\ pc = "start"
    /\ IF env.fhDir
         THEN \/ /\ fh' = [pathSet |-> TRUE, bound |-> TRUE, open |-> TRUE, enabled |-> TRUE, exists |-> TRUE]
                 /\ pc' = "check_version"
                 /\ exc' = exc
              \/ /\ fh' = [fh EXCEPT !.pathSet = TRUE]      \* open() raises
                 /\ Raise(Exc("OSError"))
         ELSE /\ fh' = fh
              /\ pc' = "check_version"
              /\ exc' = exc
    /\ UNCHANGED <<env, dumpArmed, decodeVars, resolveVars, tail, pending, reads, out, calls, exitStatus>>

\* line 72: check_python_version(infile)
CheckPythonVersion ==
    /\ pc = "check_version"
    /\ \/ /\ reads' = Append(reads, "version")
          /\ \/ /\ pc' = "arm_dump"
                /\ exc' = exc
             \/ Raise(Exc("PySparkRuntimeError"))
       \/ /\ reads' = reads
          /\ Raise(Exc("EOFError"))
    /\ UNCHANGED <<diagVars, decodeVars, resolveVars, tail, pending, out, calls, exitStatus>>

IsIntLiteral(s) == s \in {"0", "1"}

ParseInt(s) == IF s = "1" THEN 1 ELSE 0

\* lines 74-75: arm the periodic traceback dump
ArmTracebackDump ==
    /\ pc = "arm_dump"
    /\ IF env.interval = "unset"
         THEN /\ pc' = "setup" /\ exc' = exc /\ dumpArmed' = dumpArmed
         ELSE IF ~IsIntLiteral(env.interval)
           THEN /\ Raise(Exc("ValueError")) /\ dumpArmed' = dumpArmed
           ELSE /\ pc' = "setup"
                /\ exc' = exc
                /\ dumpArmed' = (ParseInt(env.interval) > 0)
    /\ UNCHANGED <<env, fh, decodeVars, resolveVars, tail, pending, reads, out, calls, exitStatus>>

\* lines 77-83: memory limits, spark files, broadcasts, accumulator registry
SetupResources ==
    /\ pc = "setup"
    /\ \/ /\ reads' = Append(reads, "setup")
          /\ pc' = "read_class"
          /\ exc' = exc
       \/ /\ reads' = reads
          /\ Raise(Exc("EOFError"))
    /\ UNCHANGED <<diagVars, decodeVars, resolveVars, tail, pending, out, calls, exitStatus>>

\* lines 86-94: receive the data source class and check it is a DataSource subclass
ReadClass ==
    /\ pc = "read_class"
    /\ \/ \E kind \in ClsKinds :
            \E name \in (IF kind \in {"object", "type"} THEN {<<>>} ELSE ClsNames) :
               /\ reads' = Append(reads, "class")
               /\ cls' = [kind |-> kind, name |-> name]
               /\ IF kind \in {"object", "type"}
                    THEN Raise(TypeMismatch("PySparkAssertionError", "a subclass of DataSource", TypeName(kind)))
                    ELSE /\ pc' = "check_name"
                         /\ exc' = exc
       \/ /\ reads' = reads
          /\ cls' = cls
          /\ Raise(Exc("EOFError"))
    /\ UNCHANGED <<diagVars, provider, hasSchema, userSchema, numOptions, key, received, options,
                   resolveVars, tail, pending, out, calls, exitStatus>>

\* CheckNameMethod that accepts any name accessor
CheckNameMethod_Skipped ==
    /\ pc = "check_name"
    /\ pc' = "read_provider"
    /\ exc' = exc
    /\ UNCHANGED <<diagVars, decodeVars, resolveVars, tail, pending, reads, out, calls, exitStatus>>

\* lines 97-104: the name method must be a classmethod
CheckNameMethod ==
    /\ pc = "check_name"
    /\ IF NameAccessorType(cls.kind) # "method"
         THEN Raise(TypeMismatch("PySparkTypeError", "'name()' method to be a classmethod",
                                 NameAccessorType(cls.kind)))
         ELSE /\ pc' = "read_provider"
              /\ exc' = exc
    /\ UNCHANGED <<diagVars, decodeVars, resolveVars, tail, pending, reads, out, calls, exitStatus>>

\* the provider check made case-sensitively
ProviderMismatch_CaseSensitive(p, n) == p # n

\* line 110: provider.lower() != data_source_cls.name().lower()
ProviderMismatch(p, n) == Lower(p) # Lower(n)

\* lines 107-117: receive the provider name and compare it with the class's name
ReadProvider ==
    /\ pc = "read_provider"
    /\ \/ \E p \in ProviderNames :
            /\ reads' = Append(reads, "provider")
            /\ provider' = p
            /\ IF ProviderMismatch(p, cls.name)
                 THEN Raise(TypeMismatch("PySparkAssertionError", "provider with name", p))
                 ELSE /\ pc' = "read_has_schema"
                      /\ exc' = exc
       \/ /\ reads' = reads
          /\ provider' = provider
          /\ Raise(Exc("EOFError"))
    /\ UNCHANGED <<diagVars, cls, hasSchema, userSchema, numOptions, key, received, options,
                   resolveVars, tail, pending, out, calls, exitStatus>>

\* ReadHasSchema that reads a schema string whatever the flag says
ReadHasSchema_AlwaysSchema ==
    /\ pc = "read_has_schema"
    /\ \/ \E b \in BOOLEAN :
            /\ reads' = Append(reads, "has_schema")
            /\ hasSchema' = b
            /\ pc' = "read_schema"
            /\ exc' = exc
       \/ /\ reads' = reads
          /\ hasSchema' = hasSchema
          /\ pc' = "except"
          /\ exc' = Exc("EOFError")
    /\ UNCHANGED <<diagVars, cls, provider, userSchema, numOptions, key, received, options,
                   resolveVars, tail, pending, out, calls, exitStatus>>

\* lines 120-121: user_specified_schema = None; read_bool(infile)
ReadHasSchema ==
    /\ pc = "read_has_schema"
    /\ \/ \E b \in BOOLEAN :
            /\ reads' = Append(reads, "has_schema")
            /\ hasSchema' = b
            /\ pc' = IF b THEN "read_schema" ELSE "read_num_options"
            /\ exc' = exc
       \/ /\ reads' = reads
          /\ hasSchema' = hasSchema
          /\ Raise(Exc("EOFError"))
    /\ UNCHANGED <<diagVars, cls, provider, userSchema, numOptions, key, received, options,
                   resolveVars, tail, pending, out, calls, exitStatus>>

\* ReadSchema without the isinstance(user_specified_schema, StructType) check
ReadSchema_Unchecked ==
    /\ pc = "read_schema"
    /\ \/ \E s \in SchemaStrings :
            /\ reads' = Append(reads, "schema")
            /\ IF ParseJson(s).tag = "raise"
                 THEN /\ userSchema' = userSchema
                      /\ pc' = "except"
                      /\ exc' = Exc(ParseJson(s).v)
                 ELSE /\ userSchema' = ParseJson(s)
                      /\ pc' = "read_num_options"
                      /\ exc' = exc
       \/ /\ reads' = reads
          /\ userSchema' = userSchema
          /\ pc' = "except"
          /\ exc' = Exc("EOFError")
    /\ UNCHANGED <<diagVars, cls, provider, hasSchema, numOptions, key, received, options,
                   resolveVars, tail, pending, out, calls, exitStatus>>

\* lines 122-130: receive the user-specified schema, which must be a StructType
ReadSchema ==
    /\ pc = "read_schema"
    /\ \/ \E s \in SchemaStrings :
            /\ reads' = Append(reads, "schema")
            /\ IF ParseJson(s).tag = "raise"
                 THEN /\ userSchema' = userSchema
                      /\ Raise(Exc(ParseJson(s).v))
                 ELSE /\ userSchema' = ParseJson(s)
                      /\ IF ParseJson(s).tag # "struct"
                           THEN Raise(TypeMismatch("PySparkAssertionError",
                                                   "the user-defined schema to be a 'StructType'",
                                                   TypeName(cls.kind)))
                           ELSE /\ pc' = "read_num_options"
                                /\ exc' = exc
       \/ /\ reads' = reads
          /\ userSchema' = userSchema
          /\ Raise(Exc("EOFError"))
    /\ UNCHANGED <<diagVars, cls, provider, hasSchema, numOptions, key, received, options,
                   resolveVars, tail, pending, out, calls, exitStatus>>

\* lines 133-135: options = CaseInsensitiveDict(); num_options = read_int(infile)
ReadNumOptions ==
    /\ pc = "read_num_options"
    /\ \/ \E n \in 0..MaxOptions :
            /\ reads' = Append(reads, "num_options")
            /\ numOptions' = n
            /\ pc' = IF n > 0 THEN "read_key" ELSE "instantiate"
            /\ exc' = exc
       \/ /\ reads' = reads
          /\ numOptions' = numOptions
          /\ Raise(Exc("EOFError"))
    /\ UNCHANGED <<diagVars, cls, provider, hasSchema, userSchema, key, received, options,
                   resolveVars, tail, pending, out, calls, exitStatus>>

\* line 136: key = utf8_deserializer.loads(infile)
ReadKey ==
    /\ pc = "read_key"
    /\ \/ \E k \in OptionKeys :
            /\ reads' = Append(reads, "key")
            /\ key' = k
            /\ pc' = "read_value"
            /\ exc' = exc
       \/ /\ reads' = reads
          /\ key' = key
          /\ Raise(Exc("EOFError"))
    /\ UNCHANGED <<diagVars, cls, provider, hasSchema, userSchema, numOptions, received, options,
                   resolveVars, tail, pending, out, calls, exitStatus>>

\* CaseInsensitiveDict.__setitem__
SetItem(d, k, v) == [x \in (DOMAIN d) \cup {Lower(k)} |-> IF x = Lower(k) THEN v ELSE d[x]]

\* ReadValue whose loop stops one pair early
ReadValue_OffByOne ==
    /\ pc = "read_value"
    /\ \/ \E v \in OptionValues :
            /\ reads' = Append(reads, "value")
            /\ received' = Append(received, <<key, v>>)
            /\ options' = SetItem(options, key, v)
            /\ pc' = IF Len(received) + 1 < numOptions - 1 THEN "read_key" ELSE "instantiate"
            /\ exc' = exc
       \/ /\ reads' = reads
          /\ received' = received
          /\ options' = options
          /\ pc' = "except"
          /\ exc' = Exc("EOFError")
    /\ UNCHANGED <<diagVars, cls, provider, hasSchema, userSchema, numOptions, key,
                   resolveVars, tail, pending, out, calls, exitStatus>>

\* ReadValue that keeps the first value received for a key
ReadValue_FirstWins ==
    /\ pc = "read_value"
    /\ \/ \E v \in OptionValues :
            /\ reads' = Append(reads, "value")
            /\ received' = Append(received, <<key, v>>)
            /\ options' = IF Lower(key) \in DOMAIN options THEN options ELSE SetItem(options, key, v)
            /\ pc' = IF Len(received) + 1 < numOptions THEN "read_key" ELSE "instantiate"
            /\ exc' = exc
       \/ /\ reads' = reads
          /\ received' = received
          /\ options' = options
          /\ pc' = "except"
          /\ exc' = Exc("EOFError")
    /\ UNCHANGED <<diagVars, cls, provider, hasSchema, userSchema, numOptions, key,
                   resolveVars, tail, pending, out, calls, exitStatus>>

\* lines 137-138: value = utf8_deserializer.loads(infile); options[key] = value
ReadValue ==
    /\ pc = "read_value"
    /\ \/ \E v \in OptionValues :
            /\ reads' = Append(reads, "value")
            /\ received' = Append(received, <<key, v>>)
            /\ options' = SetItem(options, key, v)
            /\ pc' = IF Len(received) + 1 < numOptions THEN "read_key" ELSE "instantiate"
            /\ exc' = exc
       \/ /\ reads' = reads
          /\ received' = received
          /\ options' = options
          /\ Raise(Exc("EOFError"))
    /\ UNCHANGED <<diagVars, cls, provider, hasSchema, userSchema, numOptions, key,
                   resolveVars, tail, pending, out, calls, exitStatus>>

\* Instantiate with the constructor call outside the try block
Instantiate_Unguarded ==
    /\ pc = "instantiate"
    /\ calls' = Append(calls, "ctor")
    /\ \/ /\ dataSource' = dataSource
          /\ exc' = Exc("ConstructorError")
          /\ pc' = "exited"
          /\ exitStatus' = EXIT_UNCAUGHT
       \/ \E ret \in SchemaReturns, r \in BOOLEAN, p \in BOOLEAN :
            /\ dataSource' = [made |-> TRUE, schemaRet |-> ret, raises |-> r,
                              picklable |-> p, opts |-> options]
            /\ pc' = "resolve_schema"
            /\ exc' = exc
            /\ exitStatus' = exitStatus
    /\ UNCHANGED <<diagVars, decodeVars, schema, isDdl, tail, pending, reads, out>>

\* line 141: data_source = data_source_cls(options=options)
Instantiate ==
    /\ pc = "instantiate"
    /\ calls' = Append(calls, "ctor")
    /\ \/ /\ dataSource' = dataSource
          /\ Raise(Exc("ConstructorError"))
       \/ \E ret \in SchemaReturns, r \in BOOLEAN, p \in BOOLEAN :
            /\ dataSource' = [made |-> TRUE, schemaRet |-> ret, raises |-> r,
                              picklable |-> p, opts |-> options]
            /\ pc' = "resolve_schema"
            /\ exc' = exc
    /\ UNCHANGED <<diagVars, decodeVars, schema, isDdl, tail, pending, reads, out, exitStatus>>

\* ResolveSchema that asks the data source first and falls back on the user's schema
ResolveSchema_PluginFirst ==
    /\ pc = "resolve_schema"
    /\ calls' = Append(calls, "schema")
    /\ IF dataSource.raises
         THEN /\ pc' = "except"
              /\ exc' = Exc("SchemaError")
              /\ UNCHANGED <<schema, isDdl>>
         ELSE /\ schema' = IF dataSource.schemaRet = NoSchema THEN userSchema ELSE dataSource.schemaRet
              /\ isDdl' = (dataSource.schemaRet.tag = "str")
              /\ IF dataSource.schemaRet = NoSchema /\ userSchema = NoSchema
                   THEN /\ pc' = "except"
                        /\ exc' = Exc("AssertionError")
                   ELSE /\ pc' = "write_instance"
                        /\ exc' = exc
    /\ UNCHANGED <<diagVars, decodeVars, dataSource, tail, pending, reads, out, exitStatus>>

\* ResolveSchema without the assert on line 157
ResolveSchema_NoAssert ==
    /\ pc = "resolve_schema"
    /\ IF userSchema = NoSchema
         THEN /\ calls' = Append(calls, "schema")
              /\ IF dataSource.raises
                   THEN /\ pc' = "except"
                        /\ exc' = Exc("SchemaError")
                        /\ UNCHANGED <<schema, isDdl>>
                   ELSE /\ schema' = dataSource.schemaRet
                        /\ isDdl' = (dataSource.schemaRet.tag = "str")
                        /\ pc' = "write_instance"
                        /\ exc' = exc
         ELSE /\ calls' = calls
              /\ schema' = userSchema
              /\ isDdl' = FALSE
              /\ pc' = "write_instance"
              /\ exc' = exc
    /\ UNCHANGED <<diagVars, decodeVars, dataSource, tail, pending, reads, out, exitStatus>>

\* lines 147-157: the user-specified schema if there is one, else data_source.schema()
ResolveSchema ==
    /\ pc = "resolve_schema"
    /\ IF userSchema = NoSchema
         THEN /\ calls' = Append(calls, "schema")
              /\ IF dataSource.raises
                   THEN /\ Raise(Exc("SchemaError"))
                        /\ UNCHANGED <<schema, isDdl>>
                   ELSE /\ schema' = dataSource.schemaRet
                        /\ isDdl' = (dataSource.schemaRet.tag = "str")
                        /\ IF dataSource.schemaRet = NoSchema
                             THEN Raise(Exc("AssertionError"))
                             ELSE /\ pc' = "write_instance"
                                  /\ exc' = exc
         ELSE /\ calls' = calls
              /\ schema' = userSchema
              /\ isDdl' = FALSE
              /\ pc' = "write_instance"
              /\ exc' = exc
    /\ UNCHANGED <<diagVars, decodeVars, dataSource, tail, pending, reads, out, exitStatus>>

\* line 160: pickleSer._write_with_length(data_source, outfile)
WriteInstance ==
    /\ pc = "write_instance"
    /\ \/ /\ dataSource.picklable
          /\ out' = Append(out, Frame("instance", "data_source"))
          /\ pc' = "write_flag"
          /\ exc' = exc
       \/ /\ ~dataSource.picklable
          /\ out' = out
          /\ Raise(Exc("PicklingError"))
       \/ /\ out' = out
          /\ Raise(Exc("IOError"))
    /\ UNCHANGED <<diagVars, decodeVars, resolveVars, tail, pending, reads, calls, exitStatus>>

\* WriteFlag that always reports a structured schema
WriteFlag_AlwaysZero ==
    /\ pc = "write_flag"
    /\ \/ /\ out' = Append(out, Frame("flag", 0))
          /\ pc' = "write_payload"
          /\ exc' = exc
       \/ /\ out' = out
          /\ pc' = "except"
          /\ exc' = Exc("IOError")
    /\ UNCHANGED <<diagVars, decodeVars, resolveVars, tail, pending, reads, calls, exitStatus>>

\* line 163: write_int(int(is_ddl_string), outfile)
WriteFlag ==
    /\ pc = "write_flag"
    /\ \/ /\ out' = Append(out, Frame("flag", IF isDdl THEN 1 ELSE 0))
          /\ pc' = "write_payload"
          /\ exc' = exc
       \/ /\ out' = out
          /\ Raise(Exc("IOError"))
    /\ UNCHANGED <<diagVars, decodeVars, resolveVars, tail, pending, reads, calls, exitStatus>>

\* lines 164-167: the raw DDL string, or schema.json()
WritePayload ==
    /\ pc = "write_payload"
    /\ \/ /\ isDdl
          /\ out' = Append(out, Frame("payload", schema.v))
          /\ pc' = "finally"
          /\ exc' = exc
       \/ /\ ~isDdl
          /\ schema.tag = "struct"
          /\ out' = Append(out, Frame("payload", Json(schema)))
          /\ pc' = "finally"
          /\ exc' = exc
       \/ /\ ~isDdl
          /\ schema.tag # "struct"
          /\ out' = out
          /\ Raise(Exc("AttributeError"))
       \/ /\ out' = out
          /\ Raise(Exc("IOError"))
    /\ UNCHANGED <<diagVars, decodeVars, resolveVars, tail, pending, reads, calls, exitStatus>>

\* handle_worker_exception(e, outfile)
WriteErrorEnvelope(o, e) == Append(o, Frame("error", e))

\* HandleException without the sys.exit(-1)
HandleException_NoExit ==
    /\ pc = "except"
    /\ out' = Append(out, Frame("error", exc))
    /\ pc' = "finally"
    /\ UNCHANGED <<diagVars, decodeVars, resolveVars, tail, exc, pending, reads, calls, exitStatus>>

\* lines 169-171: except BaseException: handle_worker_exception; sys.exit(-1)
HandleException ==
    /\ pc = "except"
    /\ out' = WriteErrorEnvelope(out, exc)
    /\ pending' = "SystemExit"
    /\ pc' = "finally"
    /\ UNCHANGED <<diagVars, decodeVars, resolveVars, tail, exc, reads, calls, exitStatus>>

\* the process ends with status st
Exit(st) ==
    /\ pc' = "exited"
    /\ exitStatus' = st

\* lines 172-176: finally: disable faulthandler, close and remove the log
Finally ==
    /\ pc = "finally"
    /\ IF fh.pathSet
         THEN IF fh.bound
                THEN /\ fh' = [fh EXCEPT !.enabled = FALSE, !.open = FALSE, !.exists = FALSE]
                     /\ IF pending = "SystemExit"
                          THEN Exit(EXIT_MINUS_ONE)
                          ELSE /\ pc' = "send_accum"
                               /\ exitStatus' = exitStatus
                ELSE /\ fh' = [fh EXCEPT !.enabled = FALSE]   \* UnboundLocalError
                     /\ Exit(EXIT_UNCAUGHT)
         ELSE /\ fh' = fh
              /\ IF pending = "SystemExit"
                   THEN Exit(EXIT_MINUS_ONE)
                   ELSE /\ pc' = "send_accum"
                        /\ exitStatus' = exitStatus
    /\ UNCHANGED <<env, dumpArmed, decodeVars, resolveVars, tail, exc, pending, reads, out, calls>>

\* the tail handshake started without flushing the accumulators
SendAccumulatorUpdates_Skipped ==
    /\ pc = "send_accum"
    /\ out' = out
    /\ pc' = "read_tail"
    /\ exitStatus' = exitStatus
    /\ UNCHANGED <<diagVars, decodeVars, resolveVars, tail, exc, pending, reads, calls>>

\* line 178: send_accumulator_updates(outfile)
SendAccumulatorUpdates ==
    /\ pc = "send_accum"
    /\ \/ /\ out' = Append(out, Frame("accumulators", "updates"))
          /\ pc' = "read_tail"
          /\ exitStatus' = exitStatus
       \/ /\ out' = out
          /\ Exit(EXIT_UNCAUGHT)
    /\ UNCHANGED <<diagVars, decodeVars, resolveVars, tail, exc, pending, reads, calls>>

\* line 181: read_int(infile)
ReadTail ==
    /\ pc = "read_tail"
    /\ \/ \E t \in TailValues :
            /\ reads' = Append(reads, "tail")
            /\ tail' = t
            /\ pc' = "write_tail"
            /\ exitStatus' = exitStatus
       \/ /\ reads' = reads
          /\ tail' = tail
          /\ Exit(EXIT_UNCAUGHT)
    /\ UNCHANGED <<diagVars, decodeVars, resolveVars, exc, pending, out, calls>>

\* WriteTail that echoes END_OF_STREAM whatever was read
WriteTail_AlwaysEcho ==
    /\ pc = "write_tail"
    /\ \/ /\ out' = Append(out, Frame("sentinel", END_OF_STREAM))
          /\ pc' = "cancel_dump"
          /\ exitStatus' = exitStatus
       \/ /\ out' = out
          /\ pc' = "exited"
          /\ exitStatus' = EXIT_UNCAUGHT
    /\ UNCHANGED <<diagVars, decodeVars, resolveVars, tail, exc, pending, reads, calls>>

\* WriteTail without the sys.exit(-1) on the discard branch
WriteTail_NoExit ==
    /\ pc = "write_tail"
    /\ \/ /\ tail = END_OF_STREAM
          /\ out' = Append(out, Frame("sentinel", END_OF_STREAM))
          /\ pc' = "cancel_dump"
          /\ exitStatus' = exitStatus
       \/ /\ tail # END_OF_STREAM
          /\ out' = Append(out, Frame("sentinel", END_OF_DATA_SECTION))
          /\ pc' = "cancel_dump"
          /\ exitStatus' = exitStatus
       \/ /\ out' = out
          /\ pc' = "exited"
          /\ exitStatus' = EXIT_UNCAUGHT
    /\ UNCHANGED <<diagVars, decodeVars, resolveVars, tail, exc, pending, reads, calls>>

\* lines 181-186: echo END_OF_STREAM, or write END_OF_DATA_SECTION and sys.exit(-1)
WriteTail ==
    /\ pc = "write_tail"
    /\ \/ /\ tail = END_OF_STREAM
          /\ out' = Append(out, Frame("sentinel", END_OF_STREAM))
          /\ pc' = "cancel_dump"
          /\ exitStatus' = exitStatus
       \/ /\ tail # END_OF_STREAM
          /\ out' = Append(out, Frame("sentinel", END_OF_DATA_SECTION))
          /\ Exit(EXIT_MINUS_ONE)
       \/ /\ out' = out
          /\ Exit(EXIT_UNCAUGHT)
    /\ UNCHANGED <<diagVars, decodeVars, resolveVars, tail, exc, pending, reads, calls>>

\* main returning without cancelling the periodic dump
CancelTracebackDump_Missing ==
    /\ pc = "cancel_dump"
    /\ dumpArmed' = dumpArmed
    /\ pc' = "exited"
    /\ exitStatus' = EXIT_OK
    /\ UNCHANGED <<env, fh, decodeVars, resolveVars, tail, exc, pending, reads, out, calls>>

\* line 189: faulthandler.cancel_dump_traceback_later(); main returns
CancelTracebackDump ==
    /\ pc = "cancel_dump"
    /\ dumpArmed' = FALSE
    /\ Exit(EXIT_OK)
    /\ UNCHANGED <<env, fh, decodeVars, resolveVars, tail, exc, pending, reads, out, calls>>

Next ==
    \/ OpenFaulthandlerLog
    \/ CheckPythonVersion
    \/ ArmTracebackDump
    \/ SetupResources
    \/ ReadClass
    \/ CheckNameMethod
    \/ ReadProvider
    \/ ReadHasSchema
    \/ ReadSchema
    \/ ReadNumOptions
    \/ ReadKey
    \/ ReadValue
    \/ Instantiate
    \/ ResolveSchema
    \/ WriteInstance
    \/ WriteFlag
    \/ WritePayload
    \/ HandleException
    \/ Finally
    \/ SendAccumulatorUpdates
    \/ ReadTail
    \/ WriteTail
    \/ CancelTracebackDump

Spec == Init /\ [][Next]_vars

\* ---- observations on a run -------------------------------------------
SuccessKinds == {"instance", "flag", "payload"}

Positions(k) == {i \in DOMAIN out : out[i].kind = k}

Written(k) == Positions(k) # {}

Kinds == [i \in DOMAIN out |-> out[i].kind]

WasRead(f) == \E i \in DOMAIN reads : reads[i] = f

Called(c) == \E i \in DOMAIN calls : calls[i] = c

Exited == pc = "exited"

FullSuccessResponse == SubSeq(Kinds, 1, 3) = <<"instance", "flag", "payload">>

\* C1: in every run, whatever stage fails (setup, decode, instantiation,
\* schema resolution, serialization of the instance, encoding of the schema
\* payload), either the three success frames are written and no error envelope
\* is, or an error envelope is written and no success frame precedes it.
C1_NoPartialSuccess ==
    \A i \in Positions("error") :
        out[i].val.cls # "IOError" => \A j \in 1..(i - 1) : out[j].kind \notin SuccessKinds

\* C2: every terminated run, connection faults included, shows the host either
\* the complete success response, the counters and one tail sentinel, or an
\* error envelope; never a response that stops without sentinel or envelope.
C2_SentinelOrEnvelope ==
    Exited =>
        \/ /\ Len(out) = 5
           /\ FullSuccessResponse
           /\ out[4].kind = "accumulators"
           /\ out[5].kind = "sentinel"
           /\ out[5].val \in {END_OF_STREAM, END_OF_DATA_SECTION}
        \/ Written("error")

\* C3: on the success path the worker reads exactly one trailing integer after
\* the response; END_OF_STREAM is echoed and the process finishes with exit
\* code 0, any other value is answered with END_OF_DATA_SECTION (never
\* END_OF_STREAM) and a non-zero exit. (A run whose tail write itself faults
\* ends with the uncaught-exception status and is not a case of this claim.)
C3_TailHandshakeState ==
    /\ Cardinality({i \in DOMAIN reads : reads[i] = "tail"}) <= 1
    /\ WasRead("tail") => /\ Len(out) >= 4
                          /\ FullSuccessResponse
                          /\ out[4].kind = "accumulators"
    /\ \A i \in Positions("sentinel") :
          /\ WasRead("tail")
          /\ i = 5 /\ Len(out) = 5
          /\ out[i].val = (IF tail = END_OF_STREAM THEN END_OF_STREAM ELSE END_OF_DATA_SECTION)
          /\ tail # END_OF_STREAM => Exited /\ exitStatus # EXIT_OK
          /\ tail = END_OF_STREAM => (Exited => exitStatus = EXIT_OK)
    /\ (Exited /\ WasRead("tail") /\ exitStatus # EXIT_UNCAUGHT) =>
          /\ Written("sentinel")
          /\ exitStatus = (IF tail = END_OF_STREAM THEN EXIT_OK ELSE EXIT_MINUS_ONE)

C3_TailHandshake == []C3_TailHandshakeState

C3_Witness_Reuse ==
    /\ Exited /\ exitStatus = EXIT_OK /\ tail = END_OF_STREAM
    /\ Len(out) = 5 /\ out[5] = Frame("sentinel", END_OF_STREAM)

\* C4: once the error envelope is written the process exits with non-zero
\* status and no reuse negotiation occurs: no counters are flushed, no trailing
\* integer is read, no sentinel is written, and there is one envelope at most.
C4_NoReuseAfterEnvelopeState ==
    Written("error") =>
        /\ Cardinality(Positions("error")) = 1
        /\ out[Len(out)].kind = "error"
        /\ ~Written("accumulators")
        /\ ~Written("sentinel")
        /\ ~WasRead("tail")
        /\ pc \in {"finally", "exited"}
        /\ Exited => exitStatus \in {EXIT_MINUS_ONE, EXIT_UNCAUGHT}

C4_NoReuseAfterEnvelope == []C4_NoReuseAfterEnvelopeState

C4_Witness ==
    /\ Exited /\ Written("error") /\ exitStatus = EXIT_MINUS_ONE
    /\ Written("instance")

\* C5: if the constructor raises, the run produces exactly one error envelope
\* and a non-zero exit, and no success frame before or after the envelope.
C5_ConstructorRaises ==
    exc.cls = "ConstructorError" =>
        /\ \A i \in DOMAIN out : out[i].kind = "error"
        /\ Len(out) <= 1
        /\ pc \in {"except", "finally", "exited"}
        /\ pc # "except" => out = <<Frame("error", exc)>>
        /\ Exited => exitStatus \in {EXIT_MINUS_ONE, EXIT_UNCAUGHT}

C5_Witness ==
    /\ Exited /\ exc.cls = "ConstructorError"
    /\ out = <<Frame("error", exc)>> /\ exitStatus = EXIT_MINUS_ONE
    /\ Called("ctor")


\* the request frames in their wire order, for a has-schema flag and N options
RECURSIVE Pairs(_)
Pairs(n) == IF n <= 0 THEN <<>> ELSE <<"key", "value">> \o Pairs(n - 1)

SetupReads == <<"version", "setup">>

RequestFrames(hs, n) ==
    <<"class", "provider", "has_schema">> \o (IF hs THEN <<"schema">> ELSE <<>>)
        \o <<"num_options">> \o Pairs(n)

IsPrefix(a, b) == Len(a) <= Len(b) /\ SubSeq(b, 1, Len(a)) = a

RequestRead == WasRead("num_options") /\ Len(received) = numOptions

\* C6: the request is consumed strictly in the order class blob, provider,
\* has-schema boolean, schema string (iff the boolean is true), option count
\* N, then exactly N (key, value) pairs, key before value; a failure at one
\* step stops the decoder and no later request frame is read.
C6_ReadOrderState ==
    /\ IsPrefix(reads, SetupReads \o RequestFrames(hasSchema, numOptions) \o <<"tail">>)
    /\ WasRead("schema") => WasRead("has_schema") /\ hasSchema
    /\ WasRead("num_options") => (WasRead("schema") <=> hasSchema)
    /\ pc \in {"instantiate", "resolve_schema", "write_instance", "write_flag", "write_payload"}
          => reads = SetupReads \o RequestFrames(hasSchema, numOptions)
    /\ Called("ctor") => IsPrefix(SetupReads \o RequestFrames(hasSchema, numOptions), reads)

C6_ReadOrder == [](C6_ReadOrderState) /\ [][exc # NoExc => reads' = reads]_vars

C6_Witness ==
    /\ pc = "instantiate" /\ hasSchema /\ numOptions = MaxOptions
    /\ reads = SetupReads \o RequestFrames(TRUE, MaxOptions)

\* C7: on the success path the worker writes, each exactly once and in this
\* order, the instance blob, the DDL flag (0 or 1), the schema payload and the
\* counters, and only then reads the trailing integer; no response frame is
\* written before the whole request has been read.
C7_WriteOrderState ==
    /\ \/ IsPrefix(Kinds, <<"instance", "flag", "payload", "accumulators", "sentinel">>)
       \/ \E n \in 0..2 : Kinds = SubSeq(<<"instance", "flag">>, 1, n) \o <<"error">>
    /\ \A i \in Positions("flag") : out[i].val \in {0, 1}
    /\ Written("instance") => RequestRead /\ IsPrefix(SetupReads \o RequestFrames(hasSchema, numOptions), reads)
    /\ WasRead("tail") => SubSeq(Kinds, 1, 4) = <<"instance", "flag", "payload", "accumulators">>
    /\ pc \in {"read_tail", "write_tail", "cancel_dump"}
          => Len(out) >= 4 /\ SubSeq(Kinds, 1, 4) = <<"instance", "flag", "payload", "accumulators">>
    /\ (Exited /\ exitStatus = EXIT_OK)
          => Kinds = <<"instance", "flag", "payload", "accumulators", "sentinel">>

C7_WriteOrder == []C7_WriteOrderState

C7_Witness ==
    /\ pc = "write_tail"
    /\ Kinds = <<"instance", "flag", "payload", "accumulators">>
    /\ numOptions = MaxOptions /\ reads[Len(reads)] = "tail"

\* C8: when the request carries a structured caller schema, that schema is the
\* effective one whatever the plugin's accessor would do (return a string, a
\* structured schema, null, or raise): the payload is the caller schema's
\* encoding, the DDL flag is 0, and the accessor is not invoked.
C8_CallerSchemaWins ==
    (WasRead("schema") /\ userSchema.tag = "struct") =>
        /\ ~Called("schema")
        /\ \A i \in Positions("flag") : out[i].val = 0
        /\ \A i \in Positions("payload") : out[i].val = Json(userSchema)
        /\ pc \in {"write_instance", "write_flag", "write_payload"} => schema = userSchema /\ ~isDdl
        /\ (Exited /\ dataSource.made /\ dataSource.picklable /\ exc.cls # "IOError")
              => Written("payload")

C8_Witness_String ==
    /\ WasRead("schema") /\ Written("payload") /\ dataSource.schemaRet.tag = "str"
    /\ ~dataSource.raises

C8_Witness_Raises == WasRead("schema") /\ Written("payload") /\ dataSource.raises

C8_Witness_Null ==
    /\ WasRead("schema") /\ Written("payload") /\ dataSource.schemaRet = NoSchema

C8_Witness ==
    /\ WasRead("schema") /\ Written("payload") /\ dataSource.schemaRet.tag = "struct"
    /\ dataSource.schemaRet # userSchema /\ Exited /\ exitStatus = EXIT_OK

\* the payload is a structured schema's textual encoding
IsJsonPayload(v) == v \in {"J1", "J2"}

\* C9: without a caller schema the DDL flag written is 1 exactly when the
\* accessor returned a plain string, and the payload is then that raw string;
\* for a structured schema the flag is 0 and the payload its textual encoding.
\* Flag and payload form always agree.
C9_FlagMatchesPayload ==
    (WasRead("has_schema") /\ ~hasSchema) =>
        /\ \A i \in Positions("flag") :
              /\ Called("schema")
              /\ out[i].val = 1 <=> dataSource.schemaRet.tag = "str"
        /\ \A i \in Positions("payload") :
              /\ dataSource.schemaRet.tag \in {"str", "struct"}
              /\ dataSource.schemaRet.tag = "str" =>
                    out[i].val = dataSource.schemaRet.v /\ out[i - 1] = Frame("flag", 1)
              /\ dataSource.schemaRet.tag = "struct" =>
                    out[i].val = Json(dataSource.schemaRet) /\ out[i - 1] = Frame("flag", 0)
              /\ IsJsonPayload(out[i].val) <=> out[i - 1].val = 0

C9_Witness ==
    /\ ~hasSchema /\ Written("payload") /\ dataSource.schemaRet.tag = "str"
    /\ out[2] = Frame("flag", 1)

C9_Witness_Struct ==
    /\ ~hasSchema /\ Written("payload") /\ dataSource.schemaRet.tag = "struct"
    /\ out[2] = Frame("flag", 0)

\* case-insensitive equality of two strings, character by character
SameIgnoringCase(a, b) ==
    /\ Len(a) = Len(b)
    /\ \A i \in 1..Len(a) : a[i] = b[i] \/ {a[i], b[i]} = {"a", "A"}

ProviderMismatchExc == TypeMismatch("PySparkAssertionError", "provider with name", provider)

\* C10: for a valid class reference, a provider string equal to the class's
\* declared name ignoring case passes the check and decoding continues; any
\* other provider fails with a type-mismatch envelope and non-zero exit, the
\* has-schema flag and the options are not read, the plugin is not instantiated.
C10_ProviderCheck ==
    WasRead("provider") =>
        IF SameIgnoringCase(provider, cls.name)
          THEN /\ exc.expected # "provider with name"
               /\ pc = "except" => WasRead("has_schema") \/ exc.cls = "EOFError"
          ELSE /\ exc = ProviderMismatchExc
               /\ reads = SetupReads \o <<"class", "provider">>
               /\ calls = <<>>
               /\ pc \in {"except", "finally", "exited"}
               /\ pc # "except" => out = <<Frame("error", ProviderMismatchExc)>>
               /\ Exited => exitStatus \in {EXIT_MINUS_ONE, EXIT_UNCAUGHT}

C10_Witness_Mismatch ==
    /\ Exited /\ exc = ProviderMismatchExc /\ exitStatus = EXIT_MINUS_ONE
    /\ Len(provider) = Len(cls.name) /\ ~SameIgnoringCase(provider, cls.name)

C10_Witness ==
    /\ pc = "read_has_schema" /\ provider # cls.name /\ SameIgnoringCase(provider, cls.name)
    /\ Len(provider) = 2

\* the type-mismatch errors of the class-reference checks
NotSubclassExc(kind) ==
    TypeMismatch("PySparkAssertionError", "a subclass of DataSource",
                 IF kind = "object" THEN "int" ELSE "ABCMeta")

NameNotClassmethodExc ==
    TypeMismatch("PySparkTypeError", "'name()' method to be a classmethod", "function")

\* C11: a class reference that is not a type, not a subtype of the plugin
\* base, or whose name accessor is an instance method fails the run with a
\* type-mismatch error; the check precedes the read of the provider string and
\* any instantiation, so the constructor never runs on such a reference.
C11_ClassShapeCheck ==
    /\ (WasRead("class") /\ cls.kind \in {"object", "type"}) =>
          /\ exc = NotSubclassExc(cls.kind)
          /\ pc \in {"except", "finally", "exited"}
    /\ (WasRead("class") /\ cls.kind = "instance_name") =>
          /\ pc \in {"check_name", "except", "finally", "exited"}
          /\ pc # "check_name" => exc = NameNotClassmethodExc
    /\ (WasRead("class") /\ cls.kind # "conforming") =>
          /\ reads = SetupReads \o <<"class">>
          /\ calls = <<>>
          /\ \A i \in DOMAIN out : out[i] = Frame("error", exc)
          /\ Exited => Len(out) = 1 /\ exitStatus \in {EXIT_MINUS_ONE, EXIT_UNCAUGHT}
    /\ (WasRead("provider") \/ Called("ctor")) => cls.kind = "conforming"

C11_Witness ==
    /\ Exited /\ cls.kind = "instance_name" /\ exc = NameNotClassmethodExc
    /\ out = <<Frame("error", exc)>> /\ exitStatus = EXIT_MINUS_ONE

C11_Witness_NotType ==
    /\ Exited /\ cls.kind = "object" /\ exc.errorClass = "DATA_SOURCE_TYPE_MISMATCH"

SchemaNotStructExc ==
    [cls |-> "PySparkAssertionError", errorClass |-> "DATA_SOURCE_TYPE_MISMATCH",
     expected |-> "the user-defined schema to be a 'StructType'"]

LastIndexOf(s, k) ==
    IF \E i \in DOMAIN s : SameIgnoringCase(s[i][1], k)
      THEN CHOOSE i \in DOMAIN s :
             /\ SameIgnoringCase(s[i][1], k)
             /\ \A j \in DOMAIN s : SameIgnoringCase(s[j][1], k) => j <= i
      ELSE 0

\* the mapping d holds exactly the pairs of s, later duplicates winning
HoldsLastValues(d, s) ==
    /\ \A i \in DOMAIN s : \E x \in DOMAIN d : SameIgnoringCase(x, s[i][1])
    /\ \A x \in DOMAIN d :
          /\ LastIndexOf(s, x) # 0
          /\ d[x] = s[LastIndexOf(s, x)][2]
          /\ \A y \in DOMAIN d : SameIgnoringCase(x, y) => x = y

\* C13: for every sequence of N >= 0 pairs received, the options map passed to
\* the constructor has exactly one entry per distinct case-normalized key, each
\* holding the value of the last pair whose key equals it ignoring case; no
\* received key is missing and no entry exists for a key that was not received.
\* (the map and the pairs are final once the constructor has returned, so the
\* comparison is made while they are built and at the constructor call)
C13_OptionsLastWins ==
    /\ pc \in {"read_key", "read_value", "instantiate"} => HoldsLastValues(options, received)
    /\ Called("ctor") => Len(received) = numOptions
    /\ dataSource.made => dataSource.opts = options
    /\ pc = "resolve_schema" => HoldsLastValues(dataSource.opts, received)

C13_Witness ==
    /\ dataSource.made /\ Len(received) = 2
    /\ received[1][1] # received[2][1] /\ SameIgnoringCase(received[1][1], received[2][1])
    /\ received[1][2] # received[2][2]
    /\ Cardinality(DOMAIN dataSource.opts) = 1

C13_Witness_Empty == dataSource.made /\ numOptions = 0 /\ DOMAIN dataSource.opts = {}

\* C14: a resolved schema is never absent in a success response: with no
\* caller schema and an accessor that returns null the run fails fast with a
\* generic (not type-mismatch) error envelope and non-zero exit, before the
\* instance blob or any other success frame is written.
C14_SchemaNeverAbsent ==
    /\ \A i \in DOMAIN out : out[i].kind \in SuccessKinds => schema # NoSchema
    /\ (Called("schema") /\ ~dataSource.raises /\ dataSource.schemaRet = NoSchema) =>
          /\ exc.cls = "AssertionError"
          /\ exc.errorClass # "DATA_SOURCE_TYPE_MISMATCH"
          /\ pc \in {"except", "finally", "exited"}
          /\ \A i \in DOMAIN out : out[i] = Frame("error", exc)
          /\ pc # "except" => Len(out) = 1
          /\ Exited => exitStatus \in {EXIT_MINUS_ONE, EXIT_UNCAUGHT}

C14_Witness ==
    /\ Exited /\ ~hasSchema /\ Called("schema") /\ dataSource.schemaRet = NoSchema
    /\ out = <<Frame("error", Exc("AssertionError"))>> /\ exitStatus = EXIT_MINUS_ONE

CleanReuseCycle ==
    /\ Kinds = <<"instance", "flag", "payload", "accumulators", "sentinel">>
    /\ out[5].val = END_OF_STREAM
    /\ reads[Len(reads)] = "tail"
    /\ tail = END_OF_STREAM

\* C15: the process finishes with exit code 0 if and only if the full success
\* response was written, the counters were flushed, the trailing integer was
\* END_OF_STREAM and END_OF_STREAM was echoed; every run that wrote an error
\* envelope or END_OF_DATA_SECTION ends with a non-zero exit status.
C15_ExitCode ==
    Exited =>
        /\ exitStatus = EXIT_OK <=> CleanReuseCycle
        /\ Written("error") => exitStatus \in {EXIT_MINUS_ONE, EXIT_UNCAUGHT}
        /\ (\E i \in Positions("sentinel") : out[i].val = END_OF_DATA_SECTION)
              => exitStatus = EXIT_MINUS_ONE

C15_Witness_Discard ==
    /\ Exited /\ exitStatus = EXIT_MINUS_ONE /\ Len(out) = 5
    /\ out[5] = Frame("sentinel", END_OF_DATA_SECTION)

C15_Witness == Exited /\ exitStatus = EXIT_OK /\ CleanReuseCycle /\ numOptions = 1

\* C16: with a diagnostics directory configured, the diagnostic log is
\* disarmed, closed and removed by the scoped cleanup on every exit path of
\* main, a failure to open the log file included; the cleanup raises no new
\* fault and completes before the process exits.
C16_CleanupOnEveryPath ==
    (env.fhDir /\ Exited) =>
        /\ ~fh.enabled /\ ~fh.open /\ ~fh.exists
        /\ pending = "SystemExit" => exitStatus = EXIT_MINUS_ONE

\* C17: if the periodic stack dump was armed, then when main returns after a
\* successful cycle whose trailing integer was END_OF_STREAM the dump has been
\* disarmed, and it is disarmed only after END_OF_STREAM was echoed.
C17_DumpDisarmedState ==
    /\ (Exited /\ exitStatus = EXIT_OK) => ~dumpArmed
    /\ dumpArmed => env.interval = "1"
    /\ (env.interval = "1" /\ ~dumpArmed /\ WasRead("setup")) =>
          /\ Len(out) = 5 /\ out[5] = Frame("sentinel", END_OF_STREAM)
          /\ Exited /\ exitStatus = EXIT_OK

C17_DumpDisarmed ==
    /\ [](C17_DumpDisarmedState)
    /\ [][(dumpArmed /\ ~dumpArmed') => (Len(out) = 5 /\ out[5] = Frame("sentinel", END_OF_STREAM)
                                         /\ pc' = "exited" /\ exitStatus' = EXIT_OK)]_vars

C17_Witness ==
    /\ Exited /\ exitStatus = EXIT_OK /\ env.interval = "1" /\ ~dumpArmed
    /\ out[Len(out)] = Frame("sentinel", END_OF_STREAM)

\* C18: in every run the constructor is invoked at most once and only after
\* the class-shape check, the static-name check, the provider match, the
\* structured-schema check (when a caller schema was supplied) and the reading
\* of all N option pairs have succeeded; the schema accessor is invoked at most
\* once and only on the instance the constructor returned.
C18_CallDiscipline ==
    /\ calls \in {<<>>, <<"ctor">>, <<"ctor", "schema">>}
    /\ Called("ctor") =>
          /\ cls.kind = "conforming"
          /\ SameIgnoringCase(provider, cls.name)
          /\ hasSchema => userSchema.tag = "struct"
          /\ ~hasSchema => userSchema = NoSchema
          /\ numOptions >= 0 /\ Len(received) = numOptions
          /\ IsPrefix(SetupReads \o RequestFrames(hasSchema, numOptions), reads)
    /\ Called("schema") => dataSource.made /\ dataSource.opts = options
    /\ dataSource.made => Called("ctor")

C18_Witness ==
    /\ calls = <<"ctor", "schema">> /\ dataSource.made
    /\ numOptions = MaxOptions /\ Len(received) = MaxOptions

\* type(x).__name__ of a deserialized schema
SchemaTypeName(sch) == IF sch.tag = "struct" THEN "StructType" ELSE "IntegerType"

\* C19: for each of the four contract violations (wrong object kind,
\* non-static name accessor, provider/name mismatch, non-structured caller
\* schema) the type-mismatch error's 'actual' is derived from the offending
\* received value: the class reference's kind, the name accessor's kind, the
\* provider string, the kind of the deserialized caller schema.
C19_ActualFromOffendingValue ==
    exc.errorClass = "DATA_SOURCE_TYPE_MISMATCH" =>
        /\ exc.expected = "a subclass of DataSource" =>
              exc.actual = (IF cls.kind = "object" THEN "int" ELSE "ABCMeta")
        /\ exc.expected = "'name()' method to be a classmethod" => exc.actual = "function"
        /\ exc.expected = "provider with name" => exc.actual = provider
        /\ exc.expected = "the user-defined schema to be a 'StructType'" =>
              exc.actual = SchemaTypeName(userSchema)

====
